---------------------------- MODULE Spec2Model ----------------------------
(***************************************************************************)
(* AudioBlend: AudioBuffer, Equalizer, Compressor and AutoMixer.           *)
(*                                                                         *)
(* Numbers.  A C++ float is modelled as a fixed-point integer with Unit    *)
(* steps per 1.0, products and quotients rounded to nearest.  Levels in dB *)
(* are integers in tenths of a dB.  log10, pow(10, .), sin, cos and exp    *)
(* are tabulated at the points the model evaluates them.  NaN is a         *)
(* reserved value outside the fixed-point range.                           *)
(***************************************************************************)
EXTENDS Integers, Sequences, FiniteSets, TLC

VARIABLES
    \* an AudioBuffer and the calls made on it
    buf,        \* the buffer the call is made on
    bufOther,   \* the buffer passed to addFrom
    bufBefore,  \* buf as it was before the last call
    bufCall,    \* the last call: [op, gain, other], other as it was passed
    \* an Equalizer and the calls made on it
    eq,         \* [bands_, coeffs_, states_]
    eqCall,     \* the last call: [op, index]
    eqSnap,     \* states_ when the bands were last set or cleared
    eqIn,       \* the samples passed to process since then, in order
    eqOut,      \* the samples process wrote since then, in order
    eqChunks,   \* the number of process calls since then
    eqCount,    \* [sets, calls]: calls so far; seed: the caller's signal
    \* a Compressor and the calls made on it
    comp,       \* [settings_, envelope_, currentGainReduction_, attackCoeff_,
                \*  releaseCoeff_]
    compCall,   \* the last call: [op, calls], calls so far
    compData,   \* the buffer the last process call wrote
    \* an AutoMixer and the calls made on it
    mixer,      \* [settings_, mixBusCompressor_, trackEQs_]
    tracks,     \* the caller's track list, as it is now
    mixCall,    \* the last call: [op, tracks, again], tracks as they were
                \* passed, again: the call before rendered the same list
    pc,         \* "idle", or "loop" inside AutoMixer::process
    mixParams,  \* process: the local mixParams
    mixBus,     \* process: the local mixBus
    trackCopy,  \* process: the local trackCopy of the last loop pass
    trackIdx,   \* process: the loop index i
    returned,   \* what the last completed call returned
    prevOut     \* what the render before returned, when again

bufVars == <<buf, bufOther, bufBefore, bufCall>>

eqVars == <<eq, eqCall, eqSnap, eqIn, eqOut, eqChunks, eqCount>>

compVars == <<comp, compCall, compData>>

mixVars == <<mixer, tracks, mixCall, pc, mixParams, mixBus, trackCopy, trackIdx,
             returned, prevOut>>

\* fixed-point steps per 1.0
Unit == 10 ^ 4

\* the quiet NaN a float division 0/0 yields
NaN == 0 - 2 ^ 30

Abs(x) == IF x < 0 THEN 0 - x ELSE x

Min(a, b) == IF a < b THEN a ELSE b

Max(a, b) == IF a < b THEN b ELSE a

\* n / d rounded to nearest, d > 0
Quot(n, d) ==
    IF n >= 0 THEN (2 * n + d) \div (2 * d)
              ELSE 0 - ((2 * (0 - n) + d) \div (2 * d))

\* float product a * b
MulF(a, b) == IF a = NaN \/ b = NaN THEN NaN ELSE Quot(a * b, Unit)

\* float sum a + b
AddF(a, b) == IF a = NaN \/ b = NaN THEN NaN ELSE a + b

\* 1000 * 10^(k/200) for k = 0..199: one decade of amplitude in tenths of a dB
P200 ==
  << 1000, 1012, 1023, 1035, 1047, 1059, 1072, 1084, 1096, 1109,
     1122, 1135, 1148, 1161, 1175, 1189, 1202, 1216, 1230, 1245,
     1259, 1274, 1288, 1303, 1318, 1334, 1349, 1365, 1380, 1396,
     1413, 1429, 1445, 1462, 1479, 1496, 1514, 1531, 1549, 1567,
     1585, 1603, 1622, 1641, 1660, 1679, 1698, 1718, 1738, 1758,
     1778, 1799, 1820, 1841, 1862, 1884, 1905, 1928, 1950, 1972,
     1995, 2018, 2042, 2065, 2089, 2113, 2138, 2163, 2188, 2213,
     2239, 2265, 2291, 2317, 2344, 2371, 2399, 2427, 2455, 2483,
     2512, 2541, 2570, 2600, 2630, 2661, 2692, 2723, 2754, 2786,
     2818, 2851, 2884, 2917, 2951, 2985, 3020, 3055, 3090, 3126,
     3162, 3199, 3236, 3273, 3311, 3350, 3388, 3428, 3467, 3508,
     3548, 3589, 3631, 3673, 3715, 3758, 3802, 3846, 3890, 3936,
     3981, 4027, 4074, 4121, 4169, 4217, 4266, 4315, 4365, 4416,
     4467, 4519, 4571, 4624, 4677, 4732, 4786, 4842, 4898, 4955,
     5012, 5070, 5129, 5188, 5248, 5309, 5370, 5433, 5495, 5559,
     5623, 5689, 5754, 5821, 5888, 5957, 6026, 6095, 6166, 6237,
     6310, 6383, 6457, 6531, 6607, 6683, 6761, 6839, 6918, 6998,
     7079, 7161, 7244, 7328, 7413, 7499, 7586, 7674, 7762, 7852,
     7943, 8035, 8128, 8222, 8318, 8414, 8511, 8610, 8710, 8810,
     8913, 9016, 9120, 9226, 9333, 9441, 9550, 9661, 9772, 9886 >>

\* the decade e with 10^e <= v / Unit < 10^(e+1), for v >= 1
Decade(v) ==
    CHOOSE e \in -4..5 : 10 ^ (e + 4) <= v /\ v < 10 ^ (e + 5)

\* 200 * log10(v / Unit) rounded down to a table point, for v >= 1
LogIdx(v) ==
    LET e == Decade(v)
        m == IF e >= -1 THEN v \div (10 ^ (e + 1)) ELSE v * 10 ^ (0 - (e + 1))
        k == CHOOSE j \in 0..199 :
                 /\ P200[j + 1] <= m
                 /\ (j = 199 \/ P200[j + 2] > m)
    IN  200 * e + k

\* std::pow(10.0f, d / 20.0f) for d in tenths of a dB
Pow10(d) ==
    IF d = NaN THEN NaN
    ELSE LET e == d \div 200
             k == d % 200
         IN  IF e + 1 >= 0 THEN P200[k + 1] * 10 ^ (e + 1)
                           ELSE Quot(P200[k + 1], 10 ^ (0 - (e + 1)))

\* 20.0f * std::log10(std::max(x, 1e-10f)), in tenths of a dB
AmpDb(x) == IF x <= 0 THEN -2000 ELSE LogIdx(x)

\* 10.0f * std::log10(x + 1e-10f), in tenths of a dB
PowerDb(x) ==
    IF x = NaN THEN NaN
    ELSE IF x <= 0 THEN -1000 ELSE LogIdx(x) \div 2

-----------------------------------------------------------------------------
(* AudioBuffer (core/audio_buffer.h) *)

\* lanes of one __m256 of floats
SimdWidth == 8

\* AudioBuffer(channels, samples): zero-initialised planes
AudioBuffer(channels, samples) ==
    [channels_ |-> channels,
     samples_  |-> samples,
     data_     |-> [ch \in 1..channels |-> [k \in 1..samples |-> 0]]]

\* getChannelData(channel): data_[channel].data(). std::vector::operator[]
\* checks no bound, so an index past the last plane is undefined behaviour:
\* the call hands back whatever pointer lies behind the planes' storage, or
\* the read faults and the process ends. The set of outcomes of one call.
getChannelData(b, channel) ==
    IF channel < b.channels_
    THEN {[outcome |-> "plane", plane |-> b.data_[channel + 1]]}
    ELSE {[outcome |-> "wild pointer", plane |-> << >>],
          [outcome |-> "fault", plane |-> << >>]}

getNumChannels(b) == b.channels_

getNumSamples(b) == b.samples_

\* the vector loop of applyGain: whole blocks of SimdWidth lanes from i on
RECURSIVE applyGainVector(_, _, _)
applyGainVector(channel, gain, i) ==
    IF i + SimdWidth <= Len(channel)
    THEN applyGainVector(
             [k \in 1..Len(channel) |->
                 IF i < k /\ k <= i + SimdWidth THEN MulF(channel[k], gain)
                                                ELSE channel[k]],
             gain, i + SimdWidth)
    ELSE [channel |-> channel, i |-> i]

\* the scalar loop of applyGain: the remaining samples from i on
RECURSIVE applyGainTail(_, _, _)
applyGainTail(channel, gain, i) ==
    IF i < Len(channel)
    THEN applyGainTail([channel EXCEPT ![i + 1] = MulF(@, gain)], gain, i + 1)
    ELSE channel

applyGain(b, gain) ==
    [b EXCEPT !.data_ =
        [ch \in DOMAIN b.data_ |->
            LET v == applyGainVector(b.data_[ch], gain, 0)
            IN  applyGainTail(v.channel, gain, v.i)]]

clear(b) ==
    [b EXCEPT !.data_ =
        [ch \in DOMAIN b.data_ |-> [k \in DOMAIN b.data_[ch] |-> 0]]]

\* the vector loop of addFrom
RECURSIVE addFromVector(_, _, _, _, _)
addFromVector(dst, src, gain, i, numSamples) ==
    IF i + SimdWidth <= numSamples
    THEN addFromVector(
             [k \in 1..Len(dst) |->
                 IF i < k /\ k <= i + SimdWidth
                 THEN AddF(dst[k], MulF(src[k], gain))
                 ELSE dst[k]],
             src, gain, i + SimdWidth, numSamples)
    ELSE [dst |-> dst, i |-> i]

\* addFromTail with the scalar loop restarting at sample 0 instead of at i
addFromTailRestart(dst, src, gain, i, numSamples) ==
    LET RECURSIVE loop(_, _)
        loop(d, j) ==
            IF j < numSamples
            THEN loop([d EXCEPT ![j + 1] = AddF(@, MulF(src[j + 1], gain))], j + 1)
            ELSE d
    IN  loop(dst, 0)

\* the scalar loop of addFrom
RECURSIVE addFromTail(_, _, _, _, _)
addFromTail(dst, src, gain, i, numSamples) ==
    IF i < numSamples
    THEN addFromTail([dst EXCEPT ![i + 1] = AddF(@, MulF(src[i + 1], gain))],
                     src, gain, i + 1, numSamples)
    ELSE dst

addFrom(b, other, gain) ==
    LET numChannels == Min(b.channels_, other.channels_)
        numSamples  == Min(b.samples_, other.samples_)
    IN  [b EXCEPT !.data_ =
            [ch \in DOMAIN b.data_ |->
                IF ch <= numChannels
                THEN LET v == addFromVector(b.data_[ch], other.data_[ch], gain,
                                            0, numSamples)
                     IN  addFromTail(v.dst, other.data_[ch], gain, v.i, numSamples)
                ELSE b.data_[ch]]]

-----------------------------------------------------------------------------
(* Equalizer (effects/equalizer.h, effects/equalizer.cpp) *)

\* the sample rate updateCoefficients defaults to, in Hz
SampleRate == 48000

\* Unit * sin(k * pi / 24) for k = 0..12
SinTab == <<0, 1305, 2588, 3827, 5000, 6088, 7071, 7934, 8660, 9239, 9659,
            9914, 10000>>

\* std::sin(2 * pi * k / 48)
Sin48(k) ==
    LET j == k % 48
    IN  IF j <= 12 THEN SinTab[j + 1]
        ELSE IF j <= 24 THEN SinTab[24 - j + 1]
        ELSE IF j <= 36 THEN 0 - SinTab[j - 24 + 1]
        ELSE 0 - SinTab[48 - j + 1]

\* std::cos(2 * pi * k / 48)
Cos48(k) == Sin48(k + 12)

\* struct EQBand with its default member initialisers:
\* frequency in Hz, gain in tenths of a dB, q in fixed point
EQBand == [frequency |-> 1000, gain |-> 0, q |-> (7 * Unit) \div 10, type |-> "PEAK"]

\* a value-initialised BiquadCoeffs
BiquadCoeffs == [a0 |-> 0, a1 |-> 0, a2 |-> 0, b1 |-> 0, b2 |-> 0]

\* struct BiquadState with its default member initialisers
BiquadState == [x1 |-> 0, x2 |-> 0, y1 |-> 0, y2 |-> 0]

\* Equalizer::Equalizer()
Equalizer == [bands_ |-> << >>, coeffs_ |-> << >>, states_ |-> << >>]

\* std::vector::resize(n): keeps the elements it has, value-initialises the rest
Resize(v, n, init) == [k \in 1..n |-> IF k <= Len(v) THEN v[k] ELSE init]

calculateCoeffs(band, sampleRate) ==
    LET \* omega = 2 pi f / sampleRate, as a multiple of 2 pi / 48
        omega48   == (48 * band.frequency) \div sampleRate
        sin_omega == Sin48(omega48)
        cos_omega == Cos48(omega48)
        alpha     == Quot(sin_omega * Unit, 2 * band.q)
        A         == Pow10(band.gain \div 2)
        b0 == Unit + MulF(alpha, A)
        b1 == 0 - 2 * cos_omega
        b2 == Unit - MulF(alpha, A)
        a0 == Unit + Quot(alpha * Unit, A)
        a1 == 0 - 2 * cos_omega
        a2 == Unit - Quot(alpha * Unit, A)
    IN  IF band.type = "PEAK"
        THEN [a0 |-> Quot(b0 * Unit, a0),
              a1 |-> Quot(b1 * Unit, a0),
              a2 |-> Quot(b2 * Unit, a0),
              b1 |-> Quot(a1 * Unit, a0),
              b2 |-> Quot(a2 * Unit, a0)]
        ELSE [a0 |-> Unit, a1 |-> 0, a2 |-> 0, b1 |-> 0, b2 |-> 0]

Equalizer_updateCoefficients(e, sampleRate) ==
    [e EXCEPT !.coeffs_ =
        [i \in 1..Len(e.bands_) |-> calculateCoeffs(e.bands_[i], sampleRate)]]

setBand(e, index, band) ==
    LET r == IF index >= Len(e.bands_)
             THEN [bands_  |-> Resize(e.bands_, index + 1, EQBand),
                   coeffs_ |-> Resize(e.coeffs_, index + 1, BiquadCoeffs),
                   states_ |-> Resize(e.states_, index + 1, BiquadState)]
             ELSE e
    IN  Equalizer_updateCoefficients(
            [r EXCEPT !.bands_[index + 1] = band], SampleRate)

clearBands(e) == [bands_ |-> << >>, coeffs_ |-> << >>, states_ |-> << >>]

\* one sample through one biquad section: the output and the updated state
BiquadStep(coeffs, state, input) ==
    LET output == MulF(coeffs.a0, input) + MulF(coeffs.a1, state.x1)
                    + MulF(coeffs.a2, state.x2)
                    - MulF(coeffs.b1, state.y1) - MulF(coeffs.b2, state.y2)
    IN  [output |-> output,
         state  |-> [x1 |-> input, x2 |-> state.x1, y1 |-> output, y2 |-> state.y1]]

\* the inner loop of process: samples i.. of data through one section
RECURSIVE BandLoop(_, _, _, _)
BandLoop(coeffs, state, data, i) ==
    IF i < Len(data)
    THEN LET s == BiquadStep(coeffs, state, data[i + 1])
         IN  BandLoop(coeffs, s.state, [data EXCEPT ![i + 1] = s.output], i + 1)
    ELSE [state |-> state, data |-> data]

\* the outer loop of process: sections band.. over the whole of data
RECURSIVE SectionLoop(_, _, _)
SectionLoop(e, data, band) ==
    IF band < Len(e.bands_)
    THEN LET r == BandLoop(e.coeffs_[band + 1], e.states_[band + 1], data, 0)
         IN  SectionLoop([e EXCEPT !.states_[band + 1] = r.state], r.data, band + 1)
    ELSE [eq |-> e, data |-> data]

\* process working on a copy of each section's state
Equalizer_processCopy(e, data) == [eq |-> e, data |-> SectionLoop(e, data, 0).data]

\* Equalizer::process(data, numSamples): the equalizer and the buffer after it
Equalizer_process(e, data) == SectionLoop(e, data, 0)

-----------------------------------------------------------------------------
(* Compressor (effects/compressor.h, effects/compressor.cpp) *)

\* struct CompressorSettings with its default member initialisers:
\* threshold, knee and makeupGain in tenths of a dB, ratio in fixed point,
\* attack and release in ms
CompressorSettings ==
    [threshold |-> -120, ratio |-> 4 * Unit, attack |-> 10, release |-> 100,
     knee |-> 20, makeupGain |-> 0]

\* std::exp(-1.0f / n) for a time of n samples; -1.0f / 0 is -inf, exp(-inf) is 0
ExpNegInv(n) ==
    CASE n = 0    -> 0
      [] n = 48   -> 9794
      [] n = 480  -> 9979
      [] n = 4800 -> 9998

Compressor_updateCoefficients(c, sampleRate) ==
    LET attackSamples  == (c.settings_.attack * sampleRate) \div 1000
        releaseSamples == (c.settings_.release * sampleRate) \div 1000
    IN  [c EXCEPT !.attackCoeff_  = ExpNegInv(attackSamples),
                  !.releaseCoeff_ = ExpNegInv(releaseSamples)]

\* Compressor::Compressor(settings)
Compressor(settings) ==
    Compressor_updateCoefficients(
        [settings_ |-> settings, envelope_ |-> 0, currentGainReduction_ |-> 0,
         attackCoeff_ |-> 0, releaseCoeff_ |-> 0],
        SampleRate)

\* setSettings constructing the compressor anew
setSettingsReset(c, settings) == Compressor(settings)

setSettings(c, settings) ==
    Compressor_updateCoefficients([c EXCEPT !.settings_ = settings], SampleRate)

\* the gain reduction of computeGain, in tenths of a dB
gainReduction(st, inputDb) ==
    LET kneeStart == st.threshold - st.knee \div 2
        kneeEnd   == st.threshold + st.knee \div 2
        excess    == inputDb - st.threshold
        \* 1.0f - 1.0f / ratio
        slope     == Unit - Quot(Unit * Unit, st.ratio)
    IN  IF inputDb > kneeEnd
        THEN Quot(excess * slope, Unit)
        ELSE IF inputDb > kneeStart
        THEN LET kneeProgress == Quot((inputDb - kneeStart) * Unit, st.knee)
             IN  Quot(excess * MulF(slope, MulF(kneeProgress, kneeProgress)), Unit)
        ELSE 0

computeGain(c, inputLevel) ==
    LET inputDb == AmpDb(inputLevel)
    IN  Pow10((0 - gainReduction(c.settings_, inputDb)) + c.settings_.makeupGain)

\* the loop of process: samples i.. of data
RECURSIVE CompLoop(_, _, _)
CompLoop(c, data, i) ==
    IF i < Len(data)
    THEN LET inputLevel == Abs(data[i + 1])
             coeff      == IF inputLevel > c.envelope_ THEN c.attackCoeff_
                                                       ELSE c.releaseCoeff_
             envelope   == inputLevel + MulF(c.envelope_ - inputLevel, coeff)
             gain       == computeGain([c EXCEPT !.envelope_ = envelope], envelope)
         IN  CompLoop([c EXCEPT !.envelope_ = envelope,
                                !.currentGainReduction_ = LogIdx(gain)],
                      [data EXCEPT ![i + 1] = MulF(@, gain)], i + 1)
    ELSE [comp |-> c, data |-> data]

\* Compressor::process(data, numSamples): the compressor and the buffer after it
Compressor_process(c, data) == CompLoop(c, data, 0)

-----------------------------------------------------------------------------
(* AutoMixer (dsp/auto_mixer.h, dsp/auto_mixer.cpp) *)

\* struct AutoMixerSettings with its default member initialisers:
\* levels in tenths of a dB, the ratio in fixed point
AutoMixerSettings ==
    [targetLUFS |-> -160, maxGainReduction |-> 120, frequencySeparation |-> 30,
     enableDynamicEQ |-> TRUE, enableSpatialProcessing |-> TRUE,
     mixBusCompRatio |-> 2 * Unit, mixBusCompThreshold |-> -60]

\* AutoMixer::AutoMixer(settings) with initializeProcessors
AutoMixer(settings) ==
    [settings_ |-> settings,
     mixBusCompressor_ |-> Compressor(CompressorSettings),
     trackEQs_ |-> << >>]

\* sum of v[1..n], accumulated in order
RECURSIVE SumTo(_, _)
SumTo(v, n) == IF n = 0 THEN 0 ELSE AddF(SumTo(v, n - 1), v[n])

measureLUFS(buffer) ==
    LET \* the squares in the order the loops add them: channel by channel
        squares == [j \in 1..(buffer.channels_ * buffer.samples_) |->
                       LET x == buffer.data_[((j - 1) \div buffer.samples_) + 1]
                                            [((j - 1) % buffer.samples_) + 1]
                       IN  MulF(x, x)]
        sum          == SumTo(squares, buffer.channels_ * buffer.samples_)
        totalSamples == buffer.channels_ * buffer.samples_
        meanSquare   == IF totalSamples = 0 THEN NaN ELSE Quot(sum, totalSamples)
    IN  \* -0.691f + 10.0f * log10(meanSquare + 1e-10f)
        AddF(-7, PowerDb(meanSquare))

calculateOptimalLevels(m, trackList) ==
    [t \in 1..Len(trackList) |->
        LET lufs       == measureLUFS(trackList[t])
            targetGain == AddF(m.settings_.targetLUFS,
                               IF lufs = NaN THEN NaN ELSE 0 - lufs)
            \* std::max(targetGain, -maxGainReduction) keeps a NaN first argument
            limited    == IF targetGain = NaN THEN NaN
                          ELSE Max(targetGain, 0 - m.settings_.maxGainReduction)
        IN  Pow10(limited)]

resolveFrequencyConflicts(trackList, eqSettings) ==
    [t \in 1..Len(trackList) |->
        Append(eqSettings[t],
               [EQBand EXCEPT !.frequency = 1000 * t,
                              !.gain = 20,
                              !.q = (7 * Unit) \div 10])]

\* calculatePanPositions dividing the range by the track count
calculatePanPositionsByCount(trackList) ==
    LET panRange == (8 * Unit) \div 10
        step     == Quot(2 * panRange, Len(trackList))
    IN  IF Len(trackList) = 1 THEN <<0>>
        ELSE [t \in 1..Len(trackList) |-> (0 - panRange) + (t - 1) * step]

calculatePanPositions(trackList) ==
    LET panRange == (8 * Unit) \div 10
        step     == Quot(2 * panRange, Len(trackList) - 1)
    IN  IF Len(trackList) = 1 THEN <<0>>
        ELSE [t \in 1..Len(trackList) |-> (0 - panRange) + (t - 1) * step]

analyzeTracks(m, trackList) ==
    LET empty == [t \in 1..Len(trackList) |-> << >>]
    IN  [trackGains   |-> calculateOptimalLevels(m, trackList),
         trackEQs     |-> IF m.settings_.enableDynamicEQ
                          THEN resolveFrequencyConflicts(trackList, empty)
                          ELSE empty,
         panPositions |-> IF m.settings_.enableSpatialProcessing
                          THEN calculatePanPositions(trackList)
                          ELSE [t \in 1..Len(trackList) |-> 0],
         mixBusCompressor |->
             [CompressorSettings EXCEPT
                 !.threshold = m.settings_.mixBusCompThreshold,
                 !.ratio     = m.settings_.mixBusCompRatio,
                 !.attack    = 10,
                 !.release   = 100]]

\* maxSamples taken from the last track alone
maxSamplesLast(trackList) == trackList[Len(trackList)].samples_

\* the maxSamples loop of process
RECURSIVE maxSamplesOf(_)
maxSamplesOf(trackList) ==
    IF trackList = << >> THEN 0
    ELSE Max(maxSamplesOf(SubSeq(trackList, 1, Len(trackList) - 1)),
             getNumSamples(trackList[Len(trackList)]))

\* a mix bus kept from the render before when its length fits
mixBusReused(maxSamples) ==
    IF mixCall.op = "process" /\ returned.samples_ = maxSamples
    THEN returned
    ELSE AudioBuffer(2, maxSamples)

\* AudioBuffer mixBus(2, maxSamples)
mixBusNew(maxSamples) == AudioBuffer(2, maxSamples)

-----------------------------------------------------------------------------
(* Inputs *)

\* largest channel count of an input buffer
MaxChannels == 2

\* largest sample count of a buffer in the AudioBuffer specification
MaxBufSamples == 9

\* sample patterns 0..MaxSeed
MaxSeed == 1

\* the sample values of the input patterns: 0.0, 0.1, -0.5
SampleVals == <<0, 1000, -5000>>

\* a buffer as numpy_to_buffer fills it: planes of known samples
Tone(channels, samples, seed) ==
    [channels_ |-> channels,
     samples_  |-> samples,
     data_     |-> [ch \in 1..channels |->
                      [k \in 1..samples |-> SampleVals[((seed + ch + 2 * k) % 3) + 1]]]]

\* gains passed by a caller: 0.0, 1.0, -0.5, 2.0
Gains == {0, Unit, 0 - (Unit \div 2), 2 * Unit}

-----------------------------------------------------------------------------
(* Calls on one AudioBuffer *)

BufInit ==
    /\ \E c \in 0..MaxChannels, n \in 0..MaxBufSamples, s \in 0..MaxSeed :
           buf = Tone(c, n, s)
    /\ \E c \in 0..MaxChannels, n \in 0..MaxBufSamples :
           bufOther = Tone(c, n, 1)
    /\ bufBefore = buf
    /\ bufCall = [op |-> "new", gain |-> 0, other |-> bufOther]

BufApplyGain(g) ==
    /\ bufCall.op = "new"
    /\ buf' = applyGain(buf, g)
    /\ bufBefore' = buf
    /\ bufCall' = [op |-> "applyGain", gain |-> g, other |-> bufOther]
    /\ UNCHANGED <<bufOther, eqVars, compVars, mixVars>>

BufClear ==
    /\ bufCall.op = "new"
    /\ buf' = clear(buf)
    /\ bufBefore' = buf
    /\ bufCall' = [op |-> "clear", gain |-> 0, other |-> bufOther]
    /\ UNCHANGED <<bufOther, eqVars, compVars, mixVars>>

BufAddFrom(g) ==
    /\ bufCall.op = "new"
    /\ buf' = addFrom(buf, bufOther, g)
    /\ bufBefore' = buf
    /\ bufCall' = [op |-> "addFrom", gain |-> g, other |-> bufOther]
    /\ UNCHANGED <<bufOther, eqVars, compVars, mixVars>>

\* getChannelData(channel) called with any index a size_t caller may pass
BufGetChannelData(channel) ==
    /\ bufCall.op = "new"
    /\ \E r \in getChannelData(buf, channel) :
           bufCall' = [op |-> "getChannelData", gain |-> 0, other |-> bufOther,
                       channel |-> channel, result |-> r]
    /\ bufBefore' = buf
    /\ UNCHANGED <<buf, bufOther, eqVars, compVars, mixVars>>

BufNext ==
    \/ \E g \in Gains : BufApplyGain(g)
    \/ BufClear
    \/ \E g \in Gains : BufAddFrom(g)
    \/ \E channel \in 0..MaxChannels : BufGetChannelData(channel)

-----------------------------------------------------------------------------
(* Calls on one Equalizer *)

\* largest band index passed to setBand
MaxBandIndex == 1

\* longest buffer passed to one Equalizer::process call
MaxChunk == 2

\* process calls on one Equalizer over its life
MaxEqCalls == 3

\* setBand and clearBands calls on one Equalizer over its life
MaxEqSets == 2

\* the bands a caller sets: the lowest slot of resolveFrequencyConflicts and a
\* type calculateCoeffs passes through
BandChoices ==
    {[EQBand EXCEPT !.gain = 20],
     [EQBand EXCEPT !.frequency = 2000, !.type = "HIGH_PASS"]}

\* n samples of the signal the caller feeds the Equalizer, after the first
\* `from` samples of it
EqSignal(seed, from, n) ==
    [k \in 1..n |-> SampleVals[((seed + 2 * (from + k)) % 3) + 1]]

EqInit ==
    /\ eq = Equalizer
    /\ eqCall = [op |-> "new", index |-> 0]
    /\ eqSnap = << >>
    /\ eqIn = << >>
    /\ eqOut = << >>
    /\ eqChunks = 0
    /\ \E seed \in 0..MaxSeed : eqCount = [sets |-> 0, calls |-> 0, seed |-> seed]

EqSetBand(index, band) ==
    /\ eqCount.sets < MaxEqSets
    /\ eq' = setBand(eq, index, band)
    /\ eqCall' = [op |-> "setBand", index |-> index]
    /\ eqSnap' = eq'.states_
    /\ eqIn' = << >>
    /\ eqOut' = << >>
    /\ eqChunks' = 0
    /\ eqCount' = [eqCount EXCEPT !.sets = @ + 1]
    /\ UNCHANGED <<bufVars, compVars, mixVars>>

EqClearBands ==
    /\ eqCount.sets < MaxEqSets
    /\ eq' = clearBands(eq)
    /\ eqCall' = [op |-> "clearBands", index |-> 0]
    /\ eqSnap' = eq'.states_
    /\ eqIn' = << >>
    /\ eqOut' = << >>
    /\ eqChunks' = 0
    /\ eqCount' = [eqCount EXCEPT !.sets = @ + 1]
    /\ UNCHANGED <<bufVars, compVars, mixVars>>

EqProcess(numSamples) ==
    /\ eqCount.calls < MaxEqCalls
    /\ LET data == EqSignal(eqCount.seed, Len(eqIn), numSamples)
           r    == Equalizer_process(eq, data)
       IN  /\ eq' = r.eq
           /\ eqOut' = eqOut \o r.data
           /\ eqIn' = eqIn \o data
    /\ eqCall' = [op |-> "process", index |-> 0]
    /\ eqChunks' = eqChunks + 1
    /\ eqCount' = [eqCount EXCEPT !.calls = @ + 1]
    /\ UNCHANGED <<eqSnap, bufVars, compVars, mixVars>>

EqNext ==
    \/ \E index \in 0..MaxBandIndex, band \in BandChoices : EqSetBand(index, band)
    \/ EqClearBands
    \/ \E numSamples \in 0..MaxChunk : EqProcess(numSamples)

-----------------------------------------------------------------------------
(* Calls on one Compressor *)

\* longest buffer passed to one Compressor::process call
MaxCompChunk == 2

\* calls on one Compressor over its life
MaxCompCalls == 3

\* the settings a caller passes: the defaults, the mix bus plan of
\* analyzeTracks, and instant and fast envelopes with a narrow and a wide knee
SettingsChoices ==
    {CompressorSettings,
     [CompressorSettings EXCEPT !.threshold = -60, !.ratio = 2 * Unit],
     [CompressorSettings EXCEPT !.attack = 0, !.release = 0],
     [CompressorSettings EXCEPT !.attack = 0, !.release = 1, !.knee = 120]}

\* the sample values passed to Compressor::process: 0.24, -1.0
CompSamples == {(24 * Unit) \div 100, 0 - Unit}

\* the buffers passed to one Compressor::process call
CompChunks == UNION {[1..n -> CompSamples] : n \in 0..MaxCompChunk}

CompInit ==
    /\ \E settings \in SettingsChoices : comp = Compressor(settings)
    /\ compCall = [op |-> "new", calls |-> 0]
    /\ compData = << >>

CompSetSettings(settings) ==
    /\ compCall.calls < MaxCompCalls
    /\ comp' = setSettings(comp, settings)
    /\ compCall' = [op |-> "setSettings", calls |-> compCall.calls + 1]
    /\ UNCHANGED <<compData, bufVars, eqVars, mixVars>>

CompProcess(data) ==
    /\ compCall.calls < MaxCompCalls
    /\ LET r == Compressor_process(comp, data)
       IN  /\ comp' = r.comp
           /\ compData' = r.data
    /\ compCall' = [op |-> "process", calls |-> compCall.calls + 1]
    /\ UNCHANGED <<bufVars, eqVars, mixVars>>

CompNext ==
    \/ \E settings \in SettingsChoices : CompSetSettings(settings)
    \/ \E data \in CompChunks : CompProcess(data)

CompIdle ==
    /\ comp = Compressor(CompressorSettings)
    /\ compCall = [op |-> "new", calls |-> 0]
    /\ compData = << >>

-----------------------------------------------------------------------------
(* Calls on one AutoMixer *)

\* longest track list passed to the AutoMixer
MaxTracks == 2

\* largest sample count of a track
MaxSamples == 2

\* the settings an AutoMixer is constructed with: the defaults, EQ and
\* spatial processing off, and these with a low mix bus threshold
MixerSettingsChoices ==
    {AutoMixerSettings,
     [AutoMixerSettings EXCEPT !.enableDynamicEQ = FALSE,
                               !.enableSpatialProcessing = FALSE],
     [AutoMixerSettings EXCEPT !.enableDynamicEQ = FALSE,
                               !.enableSpatialProcessing = FALSE,
                               !.mixBusCompThreshold = -800]}

\* the track lists a caller holds: any shapes, the samples of track t
\* following pattern t
TrackLists ==
    UNION {{[t \in 1..n |-> Tone(shape[t][1], shape[t][2], t)] :
               shape \in [1..n -> (0..MaxChannels) \X (0..MaxSamples)]} :
           n \in 0..MaxTracks}

\* longest track list passed to the AutoMixer for planning
MaxPlanTracks == 24

\* long lists of one-sample tracks, mono and stereo in turn
PlanTrackLists ==
    {[t \in 1..n |-> Tone(1 + (t % 2), 1, t)] : n \in 0..MaxPlanTracks}

\* no call result, no local
None == << >>

MixStart(trackLists) ==
    /\ \E settings \in MixerSettingsChoices : mixer = AutoMixer(settings)
    /\ tracks \in trackLists
    /\ mixCall = [op |-> "new", tracks |-> tracks, again |-> FALSE]
    /\ pc = "idle"
    /\ mixParams = None
    /\ mixBus = None
    /\ trackCopy = None
    /\ trackIdx = 0
    /\ returned = None
    /\ prevOut = None

\* AutoMixer::analyzeTracks(tracks), called by the caller
AnalyzeCall ==
    /\ pc = "idle"
    /\ mixCall' = [op |-> "analyzeTracks", tracks |-> tracks, again |-> FALSE]
    /\ returned' = analyzeTracks(mixer, tracks)
    /\ mixParams' = None
    /\ mixBus' = None
    /\ trackCopy' = None
    /\ trackIdx' = 0
    /\ prevOut' = None
    /\ UNCHANGED <<mixer, tracks, pc, bufVars, eqVars, compVars>>

\* AutoMixer::process(tracks) up to the track loop
ProcessCall ==
    /\ pc = "idle"
    /\ LET again == mixCall.op = "process" /\ mixCall.tracks = tracks
       IN  /\ mixCall' = [op |-> "process", tracks |-> tracks, again |-> again]
           /\ prevOut' = IF again THEN returned ELSE None
    /\ trackCopy' = None
    /\ trackIdx' = 0
    /\ IF tracks = << >>
       THEN /\ returned' = AudioBuffer(2, 0)
            /\ pc' = "idle"
            /\ mixParams' = None
            /\ mixBus' = None
       ELSE /\ returned' = None
            /\ pc' = "loop"
            /\ mixParams' = analyzeTracks(mixer, tracks)
            /\ mixBus' = mixBusNew(maxSamplesOf(tracks))
    /\ UNCHANGED <<mixer, tracks, bufVars, eqVars, compVars>>

\* one pass of the track loop working on the caller's buffer
ProcessTrackInPlace ==
    /\ pc = "loop"
    /\ trackIdx < Len(tracks)
    /\ tracks' = [tracks EXCEPT ![trackIdx + 1] =
                     applyGain(@, mixParams.trackGains[trackIdx + 1])]
    /\ trackCopy' = tracks'[trackIdx + 1]
    /\ mixBus' = addFrom(mixBus, trackCopy', Unit)
    /\ trackIdx' = trackIdx + 1
    /\ UNCHANGED <<mixer, mixCall, pc, mixParams, returned, prevOut,
                   bufVars, eqVars, compVars>>

\* one pass of the track loop: copy, gain, the EQ and pan placeholders, mix
ProcessTrack ==
    /\ pc = "loop"
    /\ trackIdx < Len(tracks)
    /\ trackCopy' = applyGain(tracks[trackIdx + 1],
                              mixParams.trackGains[trackIdx + 1])
    /\ mixBus' = addFrom(mixBus, trackCopy', Unit)
    /\ trackIdx' = trackIdx + 1
    /\ UNCHANGED <<mixer, tracks, mixCall, pc, mixParams, returned, prevOut,
                   bufVars, eqVars, compVars>>

\* after the loop: the mix bus compression placeholder, return mixBus
ProcessReturn ==
    /\ pc = "loop"
    /\ trackIdx = Len(tracks)
    /\ returned' = mixBus
    /\ pc' = "idle"
    /\ UNCHANGED <<mixer, tracks, mixCall, mixParams, mixBus, trackCopy,
                   trackIdx, prevOut, bufVars, eqVars, compVars>>

MixNext ==
    \/ AnalyzeCall
    \/ ProcessCall
    \/ ProcessTrack
    \/ ProcessReturn

MixIdle ==
    /\ mixer = AutoMixer(AutoMixerSettings)
    /\ tracks = << >>
    /\ mixCall = [op |-> "new", tracks |-> << >>, again |-> FALSE]
    /\ pc = "idle"
    /\ mixParams = None
    /\ mixBus = None
    /\ trackCopy = None
    /\ trackIdx = 0
    /\ returned = None
    /\ prevOut = None

-----------------------------------------------------------------------------
(* Specifications: one object each, the others left as constructed *)

vars == <<bufVars, eqVars, compVars, mixVars>>

BufIdle ==
    /\ buf = AudioBuffer(0, 0)
    /\ bufOther = buf
    /\ bufBefore = buf
    /\ bufCall = [op |-> "new", gain |-> 0, other |-> buf]

EqIdle == EqInit /\ eqCount.seed = 0

InitBuffer == BufInit /\ EqIdle /\ CompIdle /\ MixIdle

SpecBuffer == InitBuffer /\ [][BufNext]_vars

InitEqualizer == BufIdle /\ EqInit /\ CompIdle /\ MixIdle

SpecEqualizer == InitEqualizer /\ [][EqNext]_vars

InitCompressor == BufIdle /\ EqIdle /\ CompInit /\ MixIdle

SpecCompressor == InitCompressor /\ [][CompNext]_vars

InitMixer == BufIdle /\ EqIdle /\ CompIdle /\ MixStart(TrackLists)

SpecMixer == InitMixer /\ [][MixNext]_vars

InitPlan == BufIdle /\ EqIdle /\ CompIdle /\ MixStart(PlanTrackLists)

SpecPlan == InitPlan /\ [][MixNext]_vars

-----------------------------------------------------------------------------
\* C9: addFrom(other, gain) adds other[ch][i] * gain to self[ch][i] exactly
\* once for every ch < min(C, C') and i < min(N, N'), whatever N mod 8 is,
\* and leaves every bufOther sample of self, the shape of self and the whole of
\* other unchanged.
AddFromFrame ==
    bufCall.op = "addFrom" =>
        /\ buf.channels_ = bufBefore.channels_
        /\ buf.samples_ = bufBefore.samples_
        /\ DOMAIN buf.data_ = 1..bufBefore.channels_
        /\ \A ch \in 1..bufBefore.channels_ :
              /\ DOMAIN buf.data_[ch] = 1..bufBefore.samples_
              /\ \A k \in 1..bufBefore.samples_ :
                    buf.data_[ch][k] =
                        IF ch <= bufOther.channels_ /\ k <= bufOther.samples_
                        THEN bufBefore.data_[ch][k]
                                 + Quot(bufOther.data_[ch][k] * bufCall.gain, Unit)
                        ELSE bufBefore.data_[ch][k]
        /\ bufOther = bufCall.other

\* an addFrom over a vector block and a scalar tail that changed samples in both
AddFromTailWitness ==
    /\ bufCall.op = "addFrom"
    /\ Min(buf.samples_, bufOther.samples_) > SimdWidth
    /\ buf.channels_ > bufOther.channels_
    /\ bufOther.channels_ >= 1
    /\ buf.data_[1][1] # bufBefore.data_[1][1]
    /\ buf.data_[1][SimdWidth + 1] # bufBefore.data_[1][SimdWidth + 1]


\* C5: a call setBand(i, band) leaves the state {x1, x2, y1, y2} of section i
\* zero, also when the section existed and had processed samples.
SetBandResetsState ==
    eqCall.op = "setBand" => eq.states_[eqCall.index + 1] = BiquadState

\* C6: processing a buffer chunk by chunk yields the output samples and the
\* final section states of one process call on the whole buffer, from the
\* same starting states.
ChunkedEqualsWhole ==
    LET whole == Equalizer_process([eq EXCEPT !.states_ = eqSnap], eqIn)
    IN  /\ whole.data = eqOut
        /\ whole.eq.states_ = eq.states_

\* two sections with a PEAK band, a buffer processed in three chunks, and
\* history in every state of the last section
ChunkedWitness ==
    /\ eqChunks >= 2
    /\ Len(eqIn) = 2 * MaxChunk
    /\ Len(eq.bands_) = 2
    /\ eq.bands_[1].type = "PEAK"
    /\ eq.bands_[2].type = "PEAK"
    /\ eq.states_[2].x2 # 0
    /\ eq.states_[2].y2 # 0
    /\ eqSnap[1] # BiquadState


\* C7: setSettings replaces the settings and recomputes the attack and
\* release coefficients but leaves the envelope as it was, after any process
\* calls.
SetSettingsKeepsEnvelope ==
    [][\A settings \in SettingsChoices :
          CompSetSettings(settings) =>
              /\ comp'.envelope_ = comp.envelope_
              /\ comp'.settings_ = settings
              /\ comp'.attackCoeff_ =
                     ExpNegInv((settings.attack * SampleRate) \div 1000)
              /\ comp'.releaseCoeff_ =
                     ExpNegInv((settings.release * SampleRate) \div 1000)]_vars

\* setSettings after process calls raised the envelope, changing both
\* coefficients
SetSettingsWitness ==
    /\ compCall.op = "setSettings"
    /\ compCall.calls = 2
    /\ comp.envelope_ > 0
    /\ comp.currentGainReduction_ < 0
    /\ comp.settings_ = CompressorSettings
    /\ compData # << >>


\* a render has returned
Rendered == mixCall.op = "process" /\ pc = "idle"

\* C1: for a non-empty track list process returns a buffer of 2 channels and
\* max_i N_i samples, and mixing track i changes no bus sample n >= N_i; for
\* an empty list it returns a (2, 0) buffer.
RenderShapeAndPadding ==
    /\ [](Rendered =>
            /\ returned.channels_ = 2
            /\ DOMAIN returned.data_ = 1..2
            /\ \A ch \in 1..2 : DOMAIN returned.data_[ch] = 1..returned.samples_
            /\ \A t \in 1..Len(tracks) : returned.samples_ >= tracks[t].samples_
            /\ IF tracks = << >> THEN returned.samples_ = 0
               ELSE \E t \in 1..Len(tracks) : returned.samples_ = tracks[t].samples_)
    /\ [][pc = "loop" /\ trackIdx' = trackIdx + 1 =>
            \A ch \in 1..2 : \A n \in 1..mixBus.samples_ :
                n > tracks[trackIdx + 1].samples_ =>
                    mixBus'.data_[ch][n] = mixBus.data_[ch][n]]_vars

\* a short and a long track rendered: the tail of the bus holds the long one
RenderPaddingWitness ==
    /\ Rendered
    /\ Len(tracks) = 2
    /\ tracks[1].samples_ = MaxSamples
    /\ tracks[2].samples_ = 1
    /\ tracks[2].channels_ = 2
    /\ tracks[2].data_[1][1] # 0
    /\ returned.samples_ = MaxSamples
    /\ returned.data_[2][MaxSamples] # 0

\* C2: analyzeTracks and process leave every caller-supplied track as it was
\* passed: channel count, sample count and samples.
InputsUnchanged == tracks = mixCall.tracks

\* a render whose working copy differs from the track it was copied from
InputsUnchangedWitness ==
    /\ Rendered
    /\ Len(tracks) = 2
    /\ trackCopy # tracks[2]
    /\ trackCopy.channels_ = 2
    /\ returned.data_[1][1] # 0

\* C3: a single mono track rendered with spatial processing and dynamic EQ
\* off gives equal left and right channels, each the gained input times
\* cos(pi/4).
MonoCentred ==
    (/\ Rendered
     /\ Len(tracks) = 1
     /\ tracks[1].channels_ = 1
     /\ ~mixer.settings_.enableSpatialProcessing
     /\ ~mixer.settings_.enableDynamicEQ)
    => /\ returned.data_[1] = returned.data_[2]
       /\ \A k \in 1..tracks[1].samples_ :
              returned.data_[1][k] =
                  MulF(MulF(tracks[1].data_[1][k], mixParams.trackGains[1]),
                       Cos48(6))

\* C4: the samples process returns are the mix bus compressor's output for
\* each of the two channels of the summed bus.
BusCompressed ==
    (Rendered /\ tracks # << >>)
    => LET c == setSettings(mixer.mixBusCompressor_, mixParams.mixBusCompressor)
       IN  returned.data_ =
               [ch \in 1..2 |-> Compressor_process(c, mixBus.data_[ch]).data]

\* C8: rendering the same track list twice in succession on one AutoMixer
\* returns identical buffers.
RenderTwiceSame == (Rendered /\ mixCall.again) => returned = prevOut

\* a second render of two tracks that returned sound
RenderTwiceWitness ==
    /\ Rendered
    /\ mixCall.again
    /\ Len(tracks) = 2
    /\ returned.samples_ = MaxSamples
    /\ returned.data_[1][1] # 0
    /\ returned.data_[2][MaxSamples] # 0

\* C10: analyzeTracks returns one pan position per track, each within
\* [-1, +1]: with spatial processing and T >= 2 tracks they start at -0.8,
\* are equally spaced in input order and end at +0.8 up to the rounding of
\* the step; a single track is at 0.0; without spatial processing all are 0.
PanPositions ==
    mixCall.op = "analyzeTracks" =>
        LET p == returned.panPositions
            T == Len(tracks)
        IN  /\ DOMAIN p = 1..T
            /\ \A t \in 1..T : 0 - Unit <= p[t] /\ p[t] <= Unit
            /\ T = 1 => p[1] = 0
            /\ ~mixer.settings_.enableSpatialProcessing => \A t \in 1..T : p[t] = 0
            /\ (mixer.settings_.enableSpatialProcessing /\ T >= 2) =>
                  /\ p[1] = 0 - (8 * Unit) \div 10
                  /\ p[2] > p[1]
                  /\ \A t \in 1..(T - 1) : p[t + 1] - p[t] = p[2] - p[1]
                  /\ 2 * Abs(p[T] - (8 * Unit) \div 10) <= T - 1

\* the plan of four tracks with spatial processing: a step that is rounded
PanPositionsWitness ==
    /\ mixCall.op = "analyzeTracks"
    /\ mixer.settings_.enableSpatialProcessing
    /\ Len(tracks) = 4
    /\ returned.panPositions[4] # (8 * Unit) \div 10
    /\ returned.panPositions[2] < 0
    /\ returned.panPositions[3] > 0

-----------------------------------------------------------------------------
\* C11: channel access on a buffer with C channels fails with an OutOfRange
\* error whenever the requested index ch satisfies ch >= C, the buffer is
\* unchanged by the failed access, and no plane is returned for such an index.
ChannelAccessOutOfRange ==
    (bufCall.op = "getChannelData" /\ bufCall.channel >= buf.channels_) =>
        /\ bufCall.result.outcome = "OutOfRange"
        /\ buf = bufBefore

-----------------------------------------------------------------------------
\* C12: every EQ band that analyzeTracks places in the plan satisfies the
\* EQBand invariants at the engine sample rate: 0 < frequency < SampleRate/2,
\* q > 0 and a finite gain, for every track count and every track index.
PlanBandsValid ==
    mixCall.op = "analyzeTracks" =>
        \A t \in 1..Len(returned.trackEQs) :
            \A k \in 1..Len(returned.trackEQs[t]) :
                LET band == returned.trackEQs[t][k]
                IN  /\ 0 < band.frequency
                    /\ 2 * band.frequency < SampleRate
                    /\ band.q > 0
                    /\ band.gain # NaN

-----------------------------------------------------------------------------
\* C13: for a Compressor whose settings have ratio >= 1, knee >= 0 and
\* makeupGain = 0, the metered gain reduction is <= 0 dB after every
\* processed sample, whatever the input and the envelope, the knee region
\* below the threshold included: the gain applied never exceeds unity.
GainReductionNonPositive ==
    (/\ compCall.op = "process"
     /\ comp.settings_.ratio >= Unit
     /\ comp.settings_.knee >= 0
     /\ comp.settings_.makeupGain = 0) =>
        comp.currentGainReduction_ <= 0

=============================================================================
